---------------------------- MODULE Spec2Model ----------------------------
(***************************************************************************)
(* Stock ML Prediction Service (ml-service): the boundary handlers of      *)
(* main.py, the result cache of models/cache.py, the three predictor       *)
(* models of models/price_predictor.py, the feature table of               *)
(* models/features.py and the orchestrator of models/ensemble.py.          *)
(*                                                                         *)
(* Floating-point quantities are fixed-point integers: prices in units of  *)
(* 1/PriceScale, returns and scaled (min-max) values in units of           *)
(* 1/ReturnScale and 1/ScaledScale, every multiplication or division       *)
(* rounded to the nearest unit (ties to even) the way an IEEE operation    *)
(* rounds to the nearest float.  A fitted scikit-learn regressor is an     *)
(* opaque function: the model draws it from a set of candidate functions   *)
(* when fit() is called.                                                   *)
(***************************************************************************)
EXTENDS Integers, Sequences, FiniteSets, TLC

VARIABLES
    \* ---- service state (main.py, models/cache.py) ----
    cache,      \* ModelCache._cache: key -> [data, timestamp]
    now,        \* time.time(), in whole seconds
    ticks,      \* number of clock advances so far (bounds the clock)
    running,    \* FALSE once lifespan() has shut the service down
    last,       \* the last request handled and its response
    prev,       \* per cache key: the latest /predict/price exchange that computed
                \* a result, if none failed since
    \* ---- one call of EnsemblePredictor.predict(), step by step ----
    pc,         \* position inside predict()
    prices,     \* historical_prices of the call
    current_price,
    interval,   \* interval_seconds of a predict_intraday() call
    lstm, rf, lr,   \* the three predictor instances
    lstm_out, rf_out, lr_out,   \* what each predict_days returned
    result      \* what predict() returned or raised

svars == <<cache, now, ticks, running, last, prev>>
pvars == <<pc, prices, current_price, interval, lstm, rf, lr, lstm_out, rf_out, lr_out, result>>
vars == <<cache, now, ticks, running, last, prev,
          pc, prices, current_price, interval, lstm, rf, lr, lstm_out, rf_out, lr_out,
          result>>

---------------------------------------------------------------------------
\* Program constants

MIN_HISTORICAL_PRICES == 30
MIN_RECENT_PRICES == 10
TTL == 86400
DAYS == 30
MAX_LOOKBACK == 60
HIST_SLICE == 30

\* Fixed-point resolution
PriceScale == 10 * 100          \* price units per currency unit (3 decimals)
Cent == PriceScale \div 100     \* 0.01 in price units
ReturnScale == 10 * 100         \* a return of 1.0
ScaledScale == 10 * 100         \* a min-max scaled value of 1.0
WeightScale == 2 * 5            \* a weight of 1.0
PctScale == 100 * 100           \* 100 percent, in hundredths of a percent

\* Bounds of the model
MaxLen == 52
MaxTicks == 2

---------------------------------------------------------------------------
\* Arithmetic helpers

Min(a, b) == IF a <= b THEN a ELSE b
Max(a, b) == IF a >= b THEN a ELSE b

\* n / d rounded to the nearest integer, ties to even (d > 0)
RoundDiv(n, d) ==
    LET q == n \div d
        r == n % d
    IN  IF 2 * r < d THEN q
        ELSE IF 2 * r > d THEN q + 1
        ELSE IF q % 2 = 0 THEN q ELSE q + 1

\* round(n / d, 2) of a value n/d given in price units; the result in price units
Round2(n, d) == RoundDiv(n, d * Cent) * Cent

\* np.clip(x, lo, hi) = minimum(maximum(x, lo), hi)
Clip(x, lo, hi) == Min(Max(x, lo), hi)

RECURSIVE SqrtSearch(_, _, _)
SqrtSearch(v, lo, hi) ==
    IF lo >= hi THEN lo
    ELSE LET mid == (lo + hi + 1) \div 2
         IN  IF mid * mid <= v THEN SqrtSearch(v, mid, hi)
             ELSE SqrtSearch(v, lo, mid - 1)

\* floor of the square root
ISqrt(v) == SqrtSearch(v, 0, 46340)

RECURSIVE SumSeq(_)
SumSeq(s) == IF s = <<>> THEN 0 ELSE s[1] + SumSeq(Tail(s))

\* s[-k:] of Python
LastK(s, k) == IF Len(s) <= k THEN s ELSE SubSeq(s, Len(s) - k + 1, Len(s))

SeqMin(s) == CHOOSE x \in {s[i] : i \in 1..Len(s)} : \A j \in 1..Len(s) : x <= s[j]
SeqMax(s) == CHOOSE x \in {s[i] : i \in 1..Len(s)} : \A j \in 1..Len(s) : x >= s[j]

---------------------------------------------------------------------------
\* models/features.py: the feature table.  What training and the claims need
\* of it is which cells are defined (not NaN): a column computed with
\* rolling(w) is first defined w-1 rows after its input, one computed with
\* pct_change(k), shift(k) or diff() k rows after.  Rows are numbered from 0.

Rolling(w, first) == first + w - 1
Shifted(k, first) == first + k

\* first row at which each column of compute_features(prices) is defined
FirstDefined ==
    LET return_1d == Shifted(1, 0)
    IN  [ return_1d       |-> return_1d,
          return_5d       |-> Shifted(5, 0),
          return_10d      |-> Shifted(10, 0),
          return_20d      |-> Shifted(20, 0),
          price_to_sma5   |-> Rolling(5, 0),
          price_to_sma20  |-> Rolling(20, 0),
          price_to_sma50  |-> Rolling(50, 0),
          volatility_10d  |-> Rolling(10, return_1d),
          volatility_20d  |-> Rolling(20, return_1d),
          rsi_14          |-> Rolling(14, Shifted(1, 0)),
          macd            |-> 0,
          macd_signal     |-> 0,
          macd_histogram  |-> 0,
          bb_position     |-> Rolling(20, 0),
          atr_14          |-> Rolling(14, Rolling(2, 0)),
          momentum_5      |-> Shifted(5, 0),
          momentum_10     |-> Shifted(10, 0),
          momentum_20     |-> Shifted(20, 0),
          roc_5           |-> Shifted(5, 0),
          roc_10          |-> Shifted(10, 0),
          pe_ratio        |-> 0,
          pb_ratio        |-> 0,
          debt_to_equity  |-> 0,
          roe             |-> 0,
          profit_margin   |-> 0,
          revenue_growth  |-> 0,
          operating_margin |-> 0,
          peg_ratio       |-> 0,
          sentiment_score |-> 0,
          sentiment_magnitude |-> 0,
          delivery_pct    |-> 0,
          delivery_vs_avg |-> 0,
          fii_net_flow    |-> 0,
          dii_net_flow    |-> 0,
          institutional_net |-> 0 ]

get_feature_columns == DOMAIN FirstDefined

\* df["target"] = close.shift(-1) / close - 1: undefined on the last row
TargetDefined(i, n) == i + 1 < n

\* df.dropna(subset=feature_cols + ["target"]): the rows kept, of n rows
DropNa(n) ==
    { i \in 0..(n - 1) :
        /\ \A c \in get_feature_columns : i >= FirstDefined[c]
        /\ TargetDefined(i, n) }

\* return_1d of the last row of compute_features(hist), after
\* np.nan_to_num(nan=0.0): the feature the candidate regressors read
LastRowReturn1d(hist) ==
    LET n == Len(hist)
    IN  IF n < 1 + FirstDefined.return_1d THEN 0
        ELSE RoundDiv((hist[n] - hist[n - 1]) * ReturnScale, hist[n - 1])

---------------------------------------------------------------------------
\* Fitted regressors.  sklearn's fit() is opaque: a fitted regressor is one
\* of these candidate functions of the feature vector, chosen when fit()
\* returns.  Outputs beyond the clamps are included on purpose.

ReturnOutputs == {-80, 20, 70}      \* predicted next-day returns
ScaledOutputs == {300, 1100}        \* predicted next scaled values

ReturnFits == [up : ReturnOutputs, notup : ReturnOutputs]
ScaledFits == [up : ScaledOutputs, notup : ScaledOutputs]
Unfitted == [up |-> 0, notup |-> 0]

\* self.model.predict(row) of a fitted regressor
ModelPredict(fit, key) == IF key > 0 THEN fit.up ELSE fit.notup

\* what a call returns: normally, or by raising
Returned(v) == [raised |-> FALSE, error |-> "", value |-> v]
Raised(msg, v) == [raised |-> TRUE, error |-> msg, value |-> v]

---------------------------------------------------------------------------
\* models/price_predictor.py: RandomForestPredictor, LinearRegressionPredictor

RandomForestPredictor == [is_trained |-> FALSE, model |-> Unfitted]
LinearRegressionPredictor == [is_trained |-> FALSE, model |-> Unfitted]

\* sklearn's fit(X, y) raises ValueError on an X of 0 rows
SklearnFit(rows) == rows >= 1

\* train(): value is the instance afterwards
RandomForestTrain(self, series, fit) ==
    LET X == DropNa(Len(series))
    IN  IF SklearnFit(Cardinality(X))
        THEN Returned([is_trained |-> TRUE, model |-> fit])
        ELSE Raised("Found array with 0 sample(s)", self)

LinearRegressionTrain(self, series, fit) ==
    LET X == DropNa(Len(series))
    IN  IF SklearnFit(Cardinality(X))
        THEN Returned([is_trained |-> TRUE, model |-> fit])
        ELSE Raised("Found array with 0 sample(s)", self)

ReturnLimit == (5 * ReturnScale) \div 100     \* 0.05

\* one pass of the loop body of predict_days: the working history afterwards
ClampedStepUnclipped(model, current_prices) ==
    LET predicted_return == ModelPredict(model, LastRowReturn1d(current_prices))
        next_price == RoundDiv(current_prices[Len(current_prices)]
                               * (ReturnScale + predicted_return), ReturnScale)
    IN  Append(current_prices, next_price)

ClampedStep(model, current_prices) ==
    LET predicted_return ==
            Clip(ModelPredict(model, LastRowReturn1d(current_prices)),
                 -ReturnLimit, ReturnLimit)
        next_price == RoundDiv(current_prices[Len(current_prices)]
                               * (ReturnScale + predicted_return), ReturnScale)
    IN  Append(current_prices, next_price)

RECURSIVE AutoRegress(_, _, _)
AutoRegress(model, current_prices, days) ==
    IF days = 0 THEN current_prices
    ELSE AutoRegress(model, ClampedStep(model, current_prices), days - 1)

\* predict_days(): value is [predictions, current_prices], the list returned
\* and the working history when the loop ends
NoForecast == [predictions |-> <<>>, current_prices |-> <<>>]

RandomForestPredictDaysSilent(self, series, days) ==
    LET h == AutoRegress(self.model, series, days)
    IN  Returned([predictions |-> SubSeq(h, Len(series) + 1, Len(h)),
                  current_prices |-> h])

RandomForestPredictDays(self, series, days) ==
    IF ~self.is_trained THEN Raised("Model not trained.", NoForecast)
    ELSE LET h == AutoRegress(self.model, series, days)
         IN  Returned([predictions |-> SubSeq(h, Len(series) + 1, Len(h)),
                       current_prices |-> h])

LinearRegressionPredictDays(self, series, days) ==
    IF ~self.is_trained THEN Raised("Model not trained.", NoForecast)
    ELSE LET h == AutoRegress(self.model, series, days)
         IN  Returned([predictions |-> SubSeq(h, Len(series) + 1, Len(h)),
                       current_prices |-> h])

---------------------------------------------------------------------------
\* models/price_predictor.py: LSTMPredictor (the Pattern Model)

LSTMPredictor(lookback) ==
    [lookback |-> lookback, is_trained |-> FALSE, model |-> Unfitted,
     scaler |-> [data_min |-> 0, data_max |-> 0]]

\* MinMaxScaler: a zero data range is replaced by a scale of 1.0
ScalerRange(scaler) ==
    IF scaler.data_max = scaler.data_min THEN PriceScale
    ELSE scaler.data_max - scaler.data_min

ScalerTransform(scaler, x) ==
    RoundDiv((x - scaler.data_min) * ScaledScale, ScalerRange(scaler))

ScalerInverse(scaler, v) ==
    RoundDiv(v * ScalerRange(scaler), ScaledScale) + scaler.data_min

\* _window_features(window): of the 12 values, the one the candidate
\* regressors read is window[-1] - window[0]
WindowTrend(window) == window[Len(window)] - window[1]

\* train(): one row per i in range(lookback, len(scaled))
LSTMTrain(self, series, fit) ==
    LET rows == Max(0, Len(series) - self.lookback)
    IN  IF SklearnFit(rows)
        THEN Returned([lookback |-> self.lookback, is_trained |-> TRUE,
                       model |-> fit,
                       scaler |-> [data_min |-> SeqMin(series),
                                   data_max |-> SeqMax(series)]])
        ELSE Raised("Found array with 0 sample(s)", self)

LSTMStepUnclipped(self, window, last_scaled) ==
    LET features == WindowTrend(LastK(window, self.lookback))
        pred_scaled == ModelPredict(self.model, features)
    IN  Append(window, pred_scaled)

\* one pass of the loop body of predict_days: the window afterwards.
\* last_scaled is scaled[-1], the scaled last price of the input series.
LSTMStep(self, window, last_scaled) ==
    LET features == WindowTrend(LastK(window, self.lookback))
        pred_scaled == Clip(ModelPredict(self.model, features),
                            RoundDiv(last_scaled * 8, 10),
                            RoundDiv(last_scaled * 12, 10))
    IN  Append(window, pred_scaled)

RECURSIVE LSTMLoop(_, _, _, _)
LSTMLoop(self, window, last_scaled, days) ==
    IF days = 0 THEN window
    ELSE LSTMLoop(self, LSTMStep(self, window, last_scaled), last_scaled, days - 1)

\* predict_days(): value is [predictions, window, scaled_last]
NoWindow == [predictions |-> <<>>, window |-> <<>>, scaled_last |-> 0]

LSTMPredictDays(self, series, days) ==
    IF ~self.is_trained THEN Raised("Model not trained. Call train() first.", NoWindow)
    ELSE LET scaled == [i \in 1..Len(series) |-> ScalerTransform(self.scaler, series[i])]
             seed == LastK(scaled, self.lookback)
             w == LSTMLoop(self, seed, scaled[Len(scaled)], days)
         IN  Returned([predictions |->
                          [k \in 1..days |-> ScalerInverse(self.scaler, w[Len(seed) + k])],
                       window |-> w,
                       scaled_last |-> scaled[Len(scaled)]])

---------------------------------------------------------------------------
\* models/ensemble.py: EnsemblePredictor.predict()

WEIGHTS == [lstm |-> 5, rf |-> 3, lr |-> 2]       \* 0.5, 0.3, 0.2

\* np.std of the three forecasts of one step (population standard deviation)
Std3(a, b, c) ==
    LET mean == RoundDiv(a + b + c, 3)
        sq == (a - mean) * (a - mean) + (b - mean) * (b - mean)
              + (c - mean) * (c - mean)
    IN  ISqrt(RoundDiv(sq, 3))

WeightedSwapped(lstm_preds, rf_preds, lr_preds, i) ==
    WEIGHTS.lr * lstm_preds[i] + WEIGHTS.rf * rf_preds[i] + WEIGHTS.lstm * lr_preds[i]

\* weighted of step i, in units of 1/WeightScale price units (exact)
Weighted(lstm_preds, rf_preds, lr_preds, i) ==
    WEIGHTS.lstm * lstm_preds[i] + WEIGHTS.rf * rf_preds[i] + WEIGHTS.lr * lr_preds[i]

\* 1.5 * std, in the units of Weighted
Band(lstm_preds, rf_preds, lr_preds, i) ==
    15 * Std3(lstm_preds[i], rf_preds[i], lr_preds[i])

BlendBandSwapped(lstm_preds, rf_preds, lr_preds, days) ==
    [ ensemble_preds |-> [i \in 1..days |->
          Round2(Weighted(lstm_preds, rf_preds, lr_preds, i), WeightScale)],
      uppers |-> [i \in 1..days |->
          Round2(Weighted(lstm_preds, rf_preds, lr_preds, i)
                 - Band(lstm_preds, rf_preds, lr_preds, i), WeightScale)],
      lowers |-> [i \in 1..days |->
          Round2(Weighted(lstm_preds, rf_preds, lr_preds, i)
                 + Band(lstm_preds, rf_preds, lr_preds, i), WeightScale)] ]

\* the loop "for i in range(days)": ensemble_preds, uppers, lowers
Blend(lstm_preds, rf_preds, lr_preds, days) ==
    [ ensemble_preds |-> [i \in 1..days |->
          Round2(Weighted(lstm_preds, rf_preds, lr_preds, i), WeightScale)],
      uppers |-> [i \in 1..days |->
          Round2(Weighted(lstm_preds, rf_preds, lr_preds, i)
                 + Band(lstm_preds, rf_preds, lr_preds, i), WeightScale)],
      lowers |-> [i \in 1..days |->
          Round2(Weighted(lstm_preds, rf_preds, lr_preds, i)
                 - Band(lstm_preds, rf_preds, lr_preds, i), WeightScale)] ]

ChartDataDayOffByOne(series, current, b, days) ==
    LET hist_slice == LastK(series, HIST_SLICE)
        n == Len(hist_slice)
    IN  [i \in 1..n |->
            [day |-> i - n, price |-> Round2(hist_slice[i], 1),
             type |-> "historical"]]
        \o <<[day |-> 0, price |-> Round2(current, 1), type |-> "current"]>>
        \o [i \in 1..days |->
            [day |-> i, price |-> b.ensemble_preds[i],
             upper |-> b.uppers[i], lower |-> b.lowers[i],
             type |-> "predicted"]]

\* chart_data: historical points, the current point, the predicted points
ChartData(series, current, b, days) ==
    LET hist_slice == LastK(series, HIST_SLICE)
        n == Len(hist_slice)
    IN  [i \in 1..n |->
            [day |-> (i - 1) - n, price |-> Round2(hist_slice[i], 1),
             type |-> "historical"]]
        \o <<[day |-> 0, price |-> Round2(current, 1), type |-> "current"]>>
        \o [i \in 1..days |->
            [day |-> i, price |-> b.ensemble_preds[i],
             upper |-> b.uppers[i], lower |-> b.lowers[i],
             type |-> "predicted"]]

\* the prediction summary: label -> index into ensemble_preds (from 0)
Horizons == [next_1d |-> 0, next_5d |-> 4, next_10d |-> 9, next_30d |-> 29]

Predictions(current, b) ==
    [label \in {l \in DOMAIN Horizons : Horizons[l] < Len(b.ensemble_preds)} |->
        LET idx == Horizons[label] + 1
        IN  [price |-> b.ensemble_preds[idx],
             change_pct |-> RoundDiv((b.ensemble_preds[idx] - current) * PctScale, current),
             confidence |-> <<b.lowers[idx], b.uppers[idx]>>]]

\* the dict predict() returns (technical_signals, which no property here
\* reads, is left out)
Result(symbol, series, current, lstm_preds, rf_preds, lr_preds) ==
    LET b == Blend(lstm_preds, rf_preds, lr_preds, DAYS)
    IN  [symbol |-> symbol,
         current_price |-> current,
         chart_data |-> ChartData(series, current, b, DAYS),
         predictions |-> Predictions(current, b),
         model_weights |-> WEIGHTS,
         model_predictions |->
            [lstm |-> [i \in 1..Len(lstm_preds) |-> Round2(lstm_preds[i], 1)],
             rf |-> [i \in 1..Len(rf_preds) |-> Round2(rf_preds[i], 1)],
             lr |-> [i \in 1..Len(lr_preds) |-> Round2(lr_preds[i], 1)]]]

---------------------------------------------------------------------------
\* Inputs.  Price series are positive (spec, data model); three shapes, of
\* the lengths around the two thresholds of the code: the boundary's minimum
\* and the longest rolling window of the feature table.

Shapes == {"rising", "falling", "wave"}

Series(n, shape) ==
    [i \in 1..n |->
        CASE shape = "rising"  -> 3000 + 10 * i
          [] shape = "falling" -> 3600 - 10 * i
          [] shape = "wave"    -> 3000 + 100 * (IF i % 4 = 0 THEN 0 ELSE IF i % 4 = 2 THEN 2 ELSE 1)]

Lengths == {MIN_HISTORICAL_PRICES, MaxLen - 2, MaxLen - 1, MaxLen}
InputSeries == {Series(n, sh) : n \in Lengths, sh \in Shapes}
CurrentPrices == {2950, 3480}

---------------------------------------------------------------------------
\* EnsemblePredictor.predict(symbol, historical_prices, current_price), one
\* statement group at a time

PipelineSymbol == "RELIANCE.NS"
NoResult == Returned(<<>>)

PredictInit ==
    /\ prices \in InputSeries
    /\ current_price \in CurrentPrices
    /\ interval = 0
    /\ lstm = LSTMPredictor(Min(MAX_LOOKBACK, Len(prices) \div 3))
    /\ rf = RandomForestPredictor
    /\ lr = LinearRegressionPredictor
    /\ lstm_out = Returned(NoWindow)
    /\ rf_out = Returned(NoForecast)
    /\ lr_out = Returned(NoForecast)
    /\ result = NoResult
    /\ pc = "train_lstm"
    /\ cache = <<>> /\ now = 0 /\ ticks = 0 /\ running = TRUE
    /\ last = <<>> /\ prev = <<>>

\* an exception leaves predict(): nothing after the raising call runs
Propagate(r) ==
    /\ pc' = "raised"
    /\ result' = Raised(r.error, <<>>)

TrainLstm ==
    /\ pc = "train_lstm"
    /\ \E fit \in ScaledFits :
         LET r == LSTMTrain(lstm, prices, fit)
         IN  /\ lstm' = r.value
             /\ IF r.raised THEN Propagate(r)
                ELSE pc' = "train_rf" /\ UNCHANGED result
    /\ UNCHANGED <<prices, current_price, interval, rf, lr, lstm_out, rf_out, lr_out>>
    /\ UNCHANGED svars

TrainRf ==
    /\ pc = "train_rf"
    /\ \E fit \in ReturnFits :
         LET r == RandomForestTrain(rf, prices, fit)
         IN  /\ rf' = r.value
             /\ IF r.raised THEN Propagate(r)
                ELSE pc' = "train_lr" /\ UNCHANGED result
    /\ UNCHANGED <<prices, current_price, interval, lstm, lr, lstm_out, rf_out, lr_out>>
    /\ UNCHANGED svars

TrainLr ==
    /\ pc = "train_lr"
    /\ \E fit \in ReturnFits :
         LET r == LinearRegressionTrain(lr, prices, fit)
         IN  /\ lr' = r.value
             /\ IF r.raised THEN Propagate(r)
                ELSE pc' = "predict_lstm" /\ UNCHANGED result
    /\ UNCHANGED <<prices, current_price, interval, lstm, rf, lstm_out, rf_out, lr_out>>
    /\ UNCHANGED svars

PredictLstm ==
    /\ pc = "predict_lstm"
    /\ lstm_out' = LSTMPredictDays(lstm, prices, DAYS)
    /\ IF lstm_out'.raised THEN Propagate(lstm_out')
       ELSE pc' = "predict_rf" /\ UNCHANGED result
    /\ UNCHANGED <<prices, current_price, interval, lstm, rf, lr, rf_out, lr_out>>
    /\ UNCHANGED svars

PredictRf ==
    /\ pc = "predict_rf"
    /\ rf_out' = RandomForestPredictDays(rf, prices, DAYS)
    /\ IF rf_out'.raised THEN Propagate(rf_out')
       ELSE pc' = "predict_lr" /\ UNCHANGED result
    /\ UNCHANGED <<prices, current_price, interval, lstm, rf, lr, lstm_out, lr_out>>
    /\ UNCHANGED svars

PredictLr ==
    /\ pc = "predict_lr"
    /\ lr_out' = LinearRegressionPredictDays(lr, prices, DAYS)
    /\ IF lr_out'.raised THEN Propagate(lr_out')
       ELSE pc' = "assemble" /\ UNCHANGED result
    /\ UNCHANGED <<prices, current_price, interval, lstm, rf, lr, lstm_out, rf_out>>
    /\ UNCHANGED svars

Assemble ==
    /\ pc = "assemble"
    /\ result' = Returned(Result(PipelineSymbol, prices, current_price,
                                 lstm_out.value.predictions,
                                 rf_out.value.predictions,
                                 lr_out.value.predictions))
    /\ pc' = "returned"
    /\ UNCHANGED <<prices, current_price, interval, lstm, rf, lr, lstm_out, rf_out, lr_out>>
    /\ UNCHANGED svars

PredictNext ==
    \/ TrainLstm
    \/ TrainRf
    \/ TrainLr
    \/ PredictLstm
    \/ PredictRf
    \/ PredictLr
    \/ Assemble

SpecPredict == PredictInit /\ [][PredictNext]_vars

---------------------------------------------------------------------------
\* predict() as the boundary calls it: the statements above in one piece

EnsemblePredict(symbol, series, current, fits) ==
    LET t1 == LSTMTrain(LSTMPredictor(Min(MAX_LOOKBACK, Len(series) \div 3)),
                        series, fits.lstm)
        t2 == RandomForestTrain(RandomForestPredictor, series, fits.rf)
        t3 == LinearRegressionTrain(LinearRegressionPredictor, series, fits.lr)
        p1 == LSTMPredictDays(t1.value, series, DAYS)
        p2 == RandomForestPredictDays(t2.value, series, DAYS)
        p3 == LinearRegressionPredictDays(t3.value, series, DAYS)
    IN  IF t1.raised THEN Raised(t1.error, <<>>)
        ELSE IF t2.raised THEN Raised(t2.error, <<>>)
        ELSE IF t3.raised THEN Raised(t3.error, <<>>)
        ELSE IF p1.raised THEN Raised(p1.error, <<>>)
        ELSE IF p2.raised THEN Raised(p2.error, <<>>)
        ELSE IF p3.raised THEN Raised(p3.error, <<>>)
        ELSE Returned(Result(symbol, series, current, p1.value.predictions,
                             p2.value.predictions, p3.value.predictions))

---------------------------------------------------------------------------
\* models/ensemble.py: EnsemblePredictor.predict_intraday()

\* np.diff
Diff(s) == [i \in 1..(Len(s) - 1) |-> s[i + 1] - s[i]]

\* LinearRegression().fit(arange(n), ys).predict(x): least squares
LinearFitPredict(ys, x) ==
    LET n == Len(ys)
        sx == SumSeq([i \in 1..n |-> i - 1])
        sxx == SumSeq([i \in 1..n |-> (i - 1) * (i - 1)])
        sy == SumSeq(ys)
        sxy == SumSeq([i \in 1..n |-> (i - 1) * ys[i]])
        d == n * sxx - sx * sx
    IN  RoundDiv(sy * d + (n * sxy - sx * sy) * (n * x - sx), n * d)

\* the variance of np.std(ds) ** 2
Variance(ds) ==
    LET m == RoundDiv(SumSeq(ds), Len(ds))
    IN  RoundDiv(SumSeq([i \in 1..Len(ds) |-> (ds[i] - m) * (ds[i] - m)]), Len(ds))

IntradayHorizons == [h5min |-> 5, h15min |-> 15, h30min |-> 30]

\* the three horizons; interval_seconds = 0 makes "//" raise ZeroDivisionError
PredictIntradayOfMinutesAsSeconds(symbol, recent_prices, interval_seconds) ==
    IF interval_seconds = 0 THEN Raised("integer division or modulo by zero", <<>>)
    ELSE
    LET n == Len(recent_prices)
        lastp == recent_prices[n]
        momentum == IF n >= 5 THEN lastp - recent_prices[n - 4] ELSE 0
        ds == Diff(LastK(recent_prices, 20))
        avg_change == SumSeq(ds)
        variance == Variance(ds)
        entry(ticks_ahead) ==
            LET steps == Max(1, ticks_ahead \div interval_seconds)
                trend_pred == LinearFitPredict(recent_prices, n + steps)
                pred == trend_pred + RoundDiv(momentum * steps * 3, 50)
                band == RoundDiv(15 * ISqrt(variance * steps * 100), 100)
            IN  [steps |-> steps,
                 price |-> Round2(pred, 1),
                 upper |-> Round2(pred + band, 1),
                 lower |-> Round2(pred - band, 1),
                 direction |-> IF pred > lastp THEN "up" ELSE "down",
                 change_pct |-> RoundDiv((pred - lastp) * 100 * 1000, lastp)]
    IN  Returned([symbol |-> symbol,
                  current_price |-> Round2(lastp, 1),
                  predictions |-> [l \in DOMAIN IntradayHorizons |->
                                      entry(IntradayHorizons[l])],
                  momentum |-> momentum,
                  volatility |-> ISqrt(variance),
                  trend |-> IF avg_change > 0 THEN "up" ELSE "down"])

PredictIntradayOf(symbol, recent_prices, interval_seconds) ==
    IF interval_seconds = 0 THEN Raised("integer division or modulo by zero", <<>>)
    ELSE
    LET n == Len(recent_prices)
        lastp == recent_prices[n]
        momentum == IF n >= 5 THEN lastp - recent_prices[n - 4] ELSE 0
        ds == Diff(LastK(recent_prices, 20))
        avg_change == SumSeq(ds)
        variance == Variance(ds)
        entry(ticks_ahead) ==
            LET steps == Max(1, (ticks_ahead * 60) \div interval_seconds)
                trend_pred == LinearFitPredict(recent_prices, n + steps)
                pred == trend_pred + RoundDiv(momentum * steps * 3, 50)
                band == RoundDiv(15 * ISqrt(variance * steps * 100), 100)
            IN  [steps |-> steps,
                 price |-> Round2(pred, 1),
                 upper |-> Round2(pred + band, 1),
                 lower |-> Round2(pred - band, 1),
                 direction |-> IF pred > lastp THEN "up" ELSE "down",
                 change_pct |-> RoundDiv((pred - lastp) * 100 * 1000, lastp)]
    IN  Returned([symbol |-> symbol,
                  current_price |-> Round2(lastp, 1),
                  predictions |-> [l \in DOMAIN IntradayHorizons |->
                                      entry(IntradayHorizons[l])],
                  momentum |-> momentum,
                  volatility |-> ISqrt(variance),
                  trend |-> IF avg_change > 0 THEN "up" ELSE "down"])

\* predict_intraday() on its own: one call per behaviour, the recent prices
\* being arithmetic progressions of at least MIN_RECENT_PRICES terms
MaxRecent == 21

RecentSteps == {-10, 1, 10, 37}
RecentBases == {500, 1000}
RecentSeries ==
    { [i \in 1..n |-> base + step * (i - 1)] :
        n \in MIN_RECENT_PRICES..MaxRecent, base \in RecentBases, step \in RecentSteps }
Intervals == {0, 30, 60}

IntradayInit ==
    /\ prices \in RecentSeries
    /\ interval \in Intervals
    /\ current_price = 0
    /\ lstm = LSTMPredictor(MAX_LOOKBACK)
    /\ rf = RandomForestPredictor
    /\ lr = LinearRegressionPredictor
    /\ lstm_out = Returned(NoWindow)
    /\ rf_out = Returned(NoForecast)
    /\ lr_out = Returned(NoForecast)
    /\ result = NoResult
    /\ pc = "intraday"
    /\ cache = <<>> /\ now = 0 /\ ticks = 0 /\ running = TRUE
    /\ last = <<>> /\ prev = <<>>

IntradayCall ==
    /\ pc = "intraday"
    /\ result' = PredictIntradayOf(PipelineSymbol, prices, interval)
    /\ pc' = IF result'.raised THEN "intraday_raised" ELSE "intraday_returned"
    /\ UNCHANGED <<prices, current_price, interval, lstm, rf, lr, lstm_out, rf_out, lr_out>>
    /\ UNCHANGED svars

IntradayNext == IntradayCall

SpecIntraday == IntradayInit /\ [][IntradayNext]_vars

---------------------------------------------------------------------------
\* models/cache.py: ModelCache

\* str.upper(), a symbol being a sequence of characters
UpperChar(c) ==
    CASE c = "a" -> "A"
      [] c = "b" -> "B"
      [] OTHER -> c

Upper(symbol) == [i \in 1..Len(symbol) |-> UpperChar(symbol[i])]

Remove(c, key) == [k \in DOMAIN c \ {key} |-> c[k]]

\* get(symbol) at time t: what it returns (found, data) and the cache afterwards
CacheGetCaseSensitive(c, symbol, t) ==
    LET key == symbol
    IN  IF key \in DOMAIN c
        THEN IF t - c[key].timestamp < TTL
             THEN [found |-> TRUE, data |-> c[key].data, cache |-> c]
             ELSE [found |-> FALSE, data |-> <<>>, cache |-> Remove(c, key)]
        ELSE [found |-> FALSE, data |-> <<>>, cache |-> c]

CacheGet(c, symbol, t) ==
    LET key == Upper(symbol)
    IN  IF key \in DOMAIN c
        THEN IF t - c[key].timestamp < TTL
             THEN [found |-> TRUE, data |-> c[key].data, cache |-> c]
             ELSE [found |-> FALSE, data |-> <<>>, cache |-> Remove(c, key)]
        ELSE [found |-> FALSE, data |-> <<>>, cache |-> c]

\* set(symbol, data) at time t: the cache afterwards
CacheSet(c, symbol, data, t) ==
    LET key == Upper(symbol)
    IN  [k \in DOMAIN c \cup {key} |->
            IF k = key THEN [data |-> data, timestamp |-> t] ELSE c[k]]

CacheClear(c) == <<>>

CacheSize(c) == Cardinality(DOMAIN c)

---------------------------------------------------------------------------
\* main.py: the endpoints.  A handler is an async function without an await:
\* it runs to its end before the next request is looked at.

Symbols == {<<"a", "b">>, <<"A", "B">>, <<"B", "A">>}

\* historical_prices of the requests: below the minimum, at it, and long
\* enough for every rolling window
PriceQuotes ==
    { [historical_prices |-> Series(MIN_HISTORICAL_PRICES - 1, "rising"), current_price |-> 3300],
      [historical_prices |-> Series(MIN_HISTORICAL_PRICES, "rising"), current_price |-> 3310],
      [historical_prices |-> Series(MaxLen - 1, "rising"), current_price |-> 3480],
      [historical_prices |-> Series(MaxLen, "falling"), current_price |-> 2950] }

\* the regressors fitted during a request
ServiceFits ==
    { [lstm |-> [up |-> 1100, notup |-> 300], rf |-> [up |-> 70, notup |-> -80],
       lr |-> [up |-> 20, notup |-> 20]] }

\* int((time.time() - start_time) * 1000) of a request that trained
TrainingTimes == {1250}

Advances == {1, TTL - 1}

\* ensemble.predict() of every request the service can receive, per fit
\* (a table of EnsemblePredict, evaluated once)
PredictTable ==
    [symbol \in Symbols |-> [q \in PriceQuotes |-> [fits \in ServiceFits |->
        EnsemblePredict(symbol, q.historical_prices, q.current_price, fits)]]]

NoCall == [cache_get |-> FALSE, predict |-> FALSE, cache_set |-> FALSE]

\* what the service last answered: the endpoint, the cache key of the
\* request's symbol (/predict/price), the number of prices the request
\* carried, the status and body of the response, and the calls the handler made
Response(endpoint, key, n, status, body, calls) ==
    [endpoint |-> endpoint, key |-> key, n |-> n, status |-> status, body |-> body,
     calls |-> calls]

\* the body of an HTTPException
Detail(msg) == [detail |-> msg]

\* line 79: the request is rejected
TooFewInclusive(series) == Len(series) <= MIN_HISTORICAL_PRICES

TooFew(series) == Len(series) < MIN_HISTORICAL_PRICES

\* lines 89-92: the dict get() returned is written to and returned; it is
\* the very dict the cache holds
ServeCached(c, key) ==
    LET cached == [c[key].data EXCEPT !.cached = TRUE, !.training_time_ms = 0]
    IN  [body |-> cached, cache |-> [c EXCEPT ![key].data = cached]]

\* lines 101-103: the computed result, completed
Completed(res, training_time) ==
    [k \in DOMAIN res \cup {"training_time_ms", "cached"} |->
        CASE k = "training_time_ms" -> training_time
          [] k = "cached" -> FALSE
          [] OTHER -> res[k]]

\* lines 94-111, the try block after ensemble.predict() returned or raised r:
\* the response and the cache afterwards
AfterPredictStoresFailure(c, symbol, r, training_time, t) ==
    IF r.raised
    THEN [status |-> 500, body |-> Detail("Prediction failed"),
          cache |-> CacheSet(c, symbol, Detail("Prediction failed"), t), stored |-> TRUE]
    ELSE [status |-> 200, body |-> Completed(r.value, training_time),
          cache |-> CacheSet(c, symbol, Completed(r.value, training_time), t),
          stored |-> TRUE]

AfterPredict(c, symbol, r, training_time, t) ==
    IF r.raised
    THEN [status |-> 500, body |-> Detail("Prediction failed"), cache |-> c,
          stored |-> FALSE]
    ELSE [status |-> 200, body |-> Completed(r.value, training_time),
          cache |-> CacheSet(c, symbol, Completed(r.value, training_time), t),
          stored |-> TRUE]

\* a computing exchange: its status, its body, and when the body was computed
Exchange(status, body, t) == [status |-> status, body |-> body, computed_at |-> t]

Record(p, key, x) == [k \in DOMAIN p \cup {key} |-> IF k = key THEN x ELSE p[k]]

\* POST /predict/price
PredictPrice(symbol, series, current) ==
    /\ running
    /\ IF TooFew(series)
       THEN /\ last' = Response("price", Upper(symbol), Len(series), 400,
                        Detail("Need at least 30 historical prices"), NoCall)
            /\ UNCHANGED <<cache, prev>>
       ELSE LET g == CacheGet(cache, symbol, now)
                key == Upper(symbol)
            IN  IF g.found
                THEN LET h == ServeCached(g.cache, key)
                     IN  /\ cache' = h.cache
                         /\ last' = Response("price", key, Len(series), 200, h.body,
                                       [NoCall EXCEPT !.cache_get = TRUE])
                         /\ UNCHANGED prev
                ELSE \E fits \in ServiceFits, ms \in TrainingTimes :
                       LET r == PredictTable[symbol][[historical_prices |-> series,
                                                      current_price |-> current]][fits]
                           a == AfterPredict(g.cache, symbol, r, ms, now)
                       IN  /\ cache' = a.cache
                           /\ last' = Response("price", key, Len(series), a.status, a.body,
                                         [cache_get |-> TRUE, predict |-> TRUE,
                                          cache_set |-> a.stored])
                           /\ prev' = IF a.status = 200
                                      THEN Record(prev, key, Exchange(a.status, a.body, now))
                                      ELSE Remove(prev, key)
    /\ UNCHANGED <<now, ticks, running>>
    /\ UNCHANGED pvars

PredictPriceRequest ==
    \E symbol \in Symbols, q \in PriceQuotes :
        PredictPrice(symbol, q.historical_prices, q.current_price)

\* recent_prices and interval_seconds of the intraday requests
IntradayQuotes ==
    { [recent_prices |-> Series(MIN_RECENT_PRICES - 1, "rising"), interval_seconds |-> 60],
      [recent_prices |-> Series(MIN_RECENT_PRICES, "rising"), interval_seconds |-> 60],
      [recent_prices |-> Series(MIN_RECENT_PRICES, "rising"), interval_seconds |-> 0] }

IntradaySymbols == {<<"a", "b">>}

IntradayTable ==
    [symbol \in IntradaySymbols |-> [q \in IntradayQuotes |->
        PredictIntradayOf(symbol, q.recent_prices, q.interval_seconds)]]

\* POST /predict/intraday
PredictIntraday(symbol, q) ==
    /\ running
    /\ IF Len(q.recent_prices) < MIN_RECENT_PRICES
       THEN last' = Response("intraday", <<>>, Len(q.recent_prices), 400,
                       Detail("Need at least 10 recent prices"), NoCall)
       ELSE LET r == IntradayTable[symbol][q]
            IN  IF r.raised
                THEN last' = Response("intraday", <<>>, Len(q.recent_prices), 500,
                                Detail("Intraday prediction failed"),
                                [NoCall EXCEPT !.predict = TRUE])
                ELSE last' = Response("intraday", <<>>, Len(q.recent_prices), 200, r.value,
                                [NoCall EXCEPT !.predict = TRUE])
    /\ UNCHANGED <<cache, now, ticks, running, prev>>
    /\ UNCHANGED pvars

PredictIntradayRequest ==
    \E symbol \in IntradaySymbols, q \in IntradayQuotes : PredictIntraday(symbol, q)

\* GET /health
Health ==
    /\ running
    /\ last' = Response("health", <<>>, 0, 200,
                        [status |-> "healthy", cache_size |-> CacheSize(cache)], NoCall)
    /\ UNCHANGED <<cache, now, ticks, running, prev>>
    /\ UNCHANGED pvars

\* lifespan(): the service shuts down; the process ends, and with it the
\* exchanges it had
Shutdown ==
    /\ running
    /\ running' = FALSE
    /\ cache' = CacheClear(cache)
    /\ last' = Response("shutdown", <<>>, 0, 0, <<>>, NoCall)
    /\ prev' = <<>>
    /\ UNCHANGED <<now, ticks>>
    /\ UNCHANGED pvars

\* time passes
Tick ==
    /\ running
    /\ ticks < MaxTicks
    /\ \E d \in Advances : now' = now + d
    /\ ticks' = ticks + 1
    /\ UNCHANGED <<cache, running, last, prev>>
    /\ UNCHANGED pvars

Init ==
    /\ cache = <<>>
    /\ now = 0
    /\ ticks = 0
    /\ running = TRUE
    /\ last = Response("none", <<>>, 0, 0, <<>>, NoCall)
    /\ prev = <<>>
    /\ prices = <<>>
    /\ current_price = 0
    /\ interval = 0
    /\ lstm = LSTMPredictor(MAX_LOOKBACK)
    /\ rf = RandomForestPredictor
    /\ lr = LinearRegressionPredictor
    /\ lstm_out = Returned(NoWindow)
    /\ rf_out = Returned(NoForecast)
    /\ lr_out = Returned(NoForecast)
    /\ result = NoResult
    /\ pc = "idle"

Next ==
    \/ PredictPriceRequest
    \/ PredictIntradayRequest
    \/ Health
    \/ Tick
    \/ Shutdown

Spec == Init /\ [][Next]_vars

---------------------------------------------------------------------------
\* Properties of the service (under Spec)

\* a step that handles one POST /predict/price request (the first three
\* conjuncts follow from the fourth)
PriceStep(symbol, q) ==
    /\ ticks' = ticks
    /\ last'.endpoint = "price"
    /\ last'.key = Upper(symbol) /\ last'.n = Len(q.historical_prices)
    /\ PredictPrice(symbol, q.historical_prices, q.current_price)

Accepted(q) == Len(q.historical_prices) >= 30

\* the cache holds an entry for key that was written less than 24 hours ago
Fresh(c, key, t) == key \in DOMAIN c /\ t - c[key].timestamp < 86400

\* key is new in the cache after the step, or was written again
Written(key) ==
    /\ key \in DOMAIN cache'
    /\ key \notin DOMAIN cache \/ cache'[key].timestamp # cache[key].timestamp

\* C2: POST /predict/price answers 400 if and only if the request carries
\* fewer than 30 historical prices (29 rejected, 30 not); a rejected request
\* trains no model and neither reads nor writes the cache, whatever the
\* cache holds for its symbol.
C2_RejectBelow30 ==
    [][ \A symbol \in Symbols, q \in PriceQuotes :
          PriceStep(symbol, q) =>
             /\ (last'.status = 400) <=> (Len(q.historical_prices) <= 29)
             /\ last'.status = 400 =>
                   /\ cache' = cache
                   /\ last'.calls = [cache_get |-> FALSE, predict |-> FALSE,
                                     cache_set |-> FALSE] ]_vars

\* a request of 29 prices was rejected while the cache held a fresh entry for
\* its symbol
C2_Witness ==
    /\ last.endpoint = "price"
    /\ last.status = 400
    /\ last.n = 29
    /\ Fresh(cache, last.key, now)

\* C3: when an accepted /predict/price request follows, for the same symbol
\* (compared case-insensitively) and less than the TTL after it, a request
\* whose result was computed, the response repeats that result in every field
\* (chart_data and predictions among them) except cached, False then True,
\* and training_time_ms, the measured value then 0, whatever prices the
\* second request carries; the second request trains no model.
C3_CachedRepeat ==
    [][ \A symbol \in Symbols, q \in PriceQuotes :
          LET key == Upper(symbol)
          IN  ( /\ PriceStep(symbol, q)
                /\ Accepted(q)
                /\ key \in DOMAIN prev
                /\ prev[key].status = 200
                /\ ~prev[key].body.cached
                /\ now - prev[key].computed_at < 86400 )
              => /\ last'.status = 200
                 /\ last'.body.cached
                 /\ last'.body.training_time_ms = 0
                 /\ prev[key].body.training_time_ms \in TrainingTimes
                 /\ ~last'.calls.predict
                 /\ last'.body.chart_data = prev[key].body.chart_data
                 /\ last'.body.predictions = prev[key].body.predictions
                 /\ DOMAIN last'.body = DOMAIN prev[key].body
                 /\ \A f \in DOMAIN prev[key].body \ {"cached", "training_time_ms"} :
                       last'.body[f] = prev[key].body[f] ]_vars

\* a request was served from the cache the result of a request that carried
\* another spelling of the symbol, other prices and another current price
C3_Witness ==
    /\ last.endpoint = "price"
    /\ last.status = 200
    /\ last.body.cached
    /\ last.body.training_time_ms = 0
    /\ last.body.symbol # last.key
    /\ \E q \in PriceQuotes :
          /\ q.current_price = last.body.current_price
          /\ Len(q.historical_prices) # last.n

\* C4 (as claimed): an entry is served exactly when it is read less than the
\* TTL after its most recent write, and a hit does not renew it; the first
\* read at or after the TTL removes the entry and reports a miss, after
\* which the request retrains and rewrites the entry; only such a read (or
\* clear) removes an entry, and size() counts the expired entries not yet read.
C4_CacheLifecycle ==
    [][ /\ \A symbol \in Symbols, q \in PriceQuotes :
             LET key == Upper(symbol)
             IN  (PriceStep(symbol, q) /\ Accepted(q)) =>
                    /\ Fresh(cache, key, now) =>
                          /\ last'.status = 200 /\ last'.body.cached
                          /\ ~last'.calls.predict
                          /\ cache'[key].timestamp = cache[key].timestamp
                    /\ ~Fresh(cache, key, now) =>
                          /\ last'.calls.predict
                          /\ key \in DOMAIN cache'
                          /\ cache'[key].timestamp = now
                          /\ ~cache'[key].data.cached
        /\ \A k \in DOMAIN cache \ DOMAIN cache' :
             \/ ~running'
             \/ /\ now - cache[k].timestamp >= 86400
                /\ last'.endpoint = "price" /\ last'.key = k /\ last'.calls.cache_get
        /\ Health => last'.body.cache_size = Cardinality(DOMAIN cache) ]_vars

\* the lifecycle the code has: as C4_CacheLifecycle, the entry being rewritten
\* when the prediction after the miss succeeds
CacheLifecycleRewriteOnSuccess ==
    [][ /\ \A symbol \in Symbols, q \in PriceQuotes :
             LET key == Upper(symbol)
             IN  (PriceStep(symbol, q) /\ Accepted(q)) =>
                    /\ Fresh(cache, key, now) =>
                          /\ last'.status = 200 /\ last'.body.cached
                          /\ ~last'.calls.predict
                          /\ cache'[key].timestamp = cache[key].timestamp
                    /\ ~Fresh(cache, key, now) =>
                          /\ last'.calls.predict
                          /\ last'.status = 200 =>
                                /\ key \in DOMAIN cache'
                                /\ cache'[key].timestamp = now
                                /\ ~cache'[key].data.cached
                          /\ last'.status = 500 => key \notin DOMAIN cache'
        /\ \A k \in DOMAIN cache \ DOMAIN cache' :
             \/ ~running'
             \/ /\ now - cache[k].timestamp >= 86400
                /\ last'.endpoint = "price" /\ last'.key = k /\ last'.calls.cache_get
        /\ Health => last'.body.cache_size = Cardinality(DOMAIN cache) ]_vars

\* C5 (as claimed): from the moment cache.set stores a payload until the
\* entry is overwritten or evicted, no request changes any field of the
\* stored payload, cached and training_time_ms included; the payload stored
\* is the payload the storing request computed.
C5_EntryImmutable ==
    [][ /\ \A k \in DOMAIN cache \cap DOMAIN cache' :
             cache'[k].timestamp = cache[k].timestamp => cache'[k].data = cache[k].data
        /\ \A k \in DOMAIN cache' : Written(k) => cache'[k].data = last'.body ]_vars

\* C6: an entry is created or overwritten only by a /predict/price request
\* that missed the cache and whose prediction succeeded; a rejected (400), a
\* failed (500) and a cache-served request create and overwrite nothing, and
\* a /predict/intraday request, whatever its outcome, neither reads nor
\* changes the cache.
C6_CacheWrites ==
    [][ /\ \A k \in DOMAIN cache' :
             Written(k) =>
                /\ \E symbol \in Symbols, q \in PriceQuotes : PriceStep(symbol, q)
                /\ last'.endpoint = "price" /\ last'.key = k
                /\ last'.n >= 30
                /\ last'.status = 200 /\ ~last'.body.cached
                /\ last'.calls = [cache_get |-> TRUE, predict |-> TRUE, cache_set |-> TRUE]
                /\ ~Fresh(cache, k, now)
                /\ cache'[k].timestamp = now
        /\ (last'.endpoint = "price" /\ last'.status \in {400, 500}) =>
             /\ ~last'.calls.cache_set
             /\ \A k \in DOMAIN cache' : k \in DOMAIN cache /\ cache'[k] = cache[k]
        /\ (last'.endpoint = "price" /\ last'.status = 200 /\ last'.body.cached) =>
             /\ ~last'.calls.cache_set
             /\ DOMAIN cache' = DOMAIN cache
             /\ \A k \in DOMAIN cache : cache'[k].timestamp = cache[k].timestamp
        /\ last'.endpoint = "intraday" =>
             /\ cache' = cache
             /\ ~last'.calls.cache_get /\ ~last'.calls.cache_set ]_vars

\* a request failed after a miss and left the cache, which holds an entry of
\* another symbol, without an entry for its own
C6_Witness ==
    /\ last.endpoint = "price"
    /\ last.status = 500
    /\ last.key \notin DOMAIN cache
    /\ DOMAIN cache # {}

---------------------------------------------------------------------------
\* Properties of predict() and of the three models (under SpecPredict)

PredictedPoints(chart) == { i \in 1..Len(chart) : chart[i].type = "predicted" }

\* C1 (as claimed): for every price series of length >= 30, predict()
\* completes without error and returns exactly 30 chart points of type
\* "predicted" and a summary entry for each of next_1d, next_5d, next_10d
\* and next_30d; all three models have at least one training row.
C1_PredictCompletesFrom30 ==
    Len(prices) >= 30 =>
        /\ pc # "raised"
        /\ pc = "returned" =>
              /\ Cardinality(PredictedPoints(result.value.chart_data)) = 30
              /\ DOMAIN result.value.predictions
                    = {"next_1d", "next_5d", "next_10d", "next_30d"}

\* predict() was passed the statement that trains the model
PastTrain(model) ==
    CASE model = "lstm" -> pc \in {"train_rf", "train_lr", "predict_lstm", "predict_rf",
                                   "predict_lr", "assemble", "returned", "raised"}
      [] model = "rf"   -> pc \in {"train_lr", "predict_lstm", "predict_rf",
                                   "predict_lr", "assemble", "returned", "raised"}
      [] model = "lr"   -> pc \in {"predict_lstm", "predict_rf",
                                   "predict_lr", "assemble", "returned", "raised"}

\* C7: each model's is_trained is false on construction and true only once
\* its train() has fitted without error (at least one training row); on an
\* instance whose is_trained is false predict_days raises the usage error
\* and yields no forecast; predict() calls each predict_days only on a
\* trained model, so it never raises the usage error.
C7_TrainBeforePredict ==
    /\ pc = "train_lstm" => ~lstm.is_trained /\ ~rf.is_trained /\ ~lr.is_trained
    /\ lstm.is_trained =>
          /\ PastTrain("lstm")
          /\ Len(prices) - lstm.lookback >= 1
          /\ lstm.model \in ScaledFits
    /\ rf.is_trained =>
          PastTrain("rf") /\ DropNa(Len(prices)) # {} /\ rf.model \in ReturnFits
    /\ lr.is_trained =>
          PastTrain("lr") /\ DropNa(Len(prices)) # {} /\ lr.model \in ReturnFits
    /\ ~lstm.is_trained =>
          LET r == LSTMPredictDays(lstm, prices, DAYS)
          IN  r.raised /\ r.error = "Model not trained. Call train() first."
              /\ r.value.predictions = <<>>
    /\ ~rf.is_trained =>
          LET r == RandomForestPredictDays(rf, prices, DAYS)
          IN  r.raised /\ r.error = "Model not trained." /\ r.value.predictions = <<>>
    /\ ~lr.is_trained =>
          LET r == LinearRegressionPredictDays(lr, prices, DAYS)
          IN  r.raised /\ r.error = "Model not trained." /\ r.value.predictions = <<>>
    /\ pc = "predict_lstm" => lstm.is_trained
    /\ pc = "predict_rf" => rf.is_trained /\ ~lstm_out.raised
    /\ pc = "predict_lr" => lr.is_trained /\ ~rf_out.raised
    /\ pc = "raised" =>
          result.error \notin {"Model not trained.", "Model not trained. Call train() first."}

\* predict() returned: the three models were trained, then asked to forecast
C7_Witness ==
    /\ pc = "returned"
    /\ lstm.is_trained /\ rf.is_trained /\ lr.is_trained
    /\ Len(lstm_out.value.predictions) = DAYS
    /\ Len(rf_out.value.predictions) = DAYS
    /\ Len(lr_out.value.predictions) = DAYS

\* C8: in every result of predict(), every predicted chart point has
\* lower <= price <= upper, the three being the 2-decimal roundings of
\* weighted - 1.5*std, weighted and weighted + 1.5*std of the three model
\* forecasts of that step; every summary entry's confidence pair
\* [lower, upper] encloses its price in the same way.
C8_BandOrdering ==
    pc = "returned" =>
        LET chart == result.value.chart_data
            l == lstm_out.value.predictions
            r == rf_out.value.predictions
            t == lr_out.value.predictions
            w(i) == 5 * l[i] + 3 * r[i] + 2 * t[i]
            band(i) == 15 * Std3(l[i], r[i], t[i])
        IN  /\ \A i \in PredictedPoints(chart) :
                 /\ chart[i].lower <= chart[i].price
                 /\ chart[i].price <= chart[i].upper
                 /\ chart[i].price = Round2(w(chart[i].day), 10)
                 /\ chart[i].upper = Round2(w(chart[i].day) + band(chart[i].day), 10)
                 /\ chart[i].lower = Round2(w(chart[i].day) - band(chart[i].day), 10)
            /\ \A label \in DOMAIN result.value.predictions :
                 LET e == result.value.predictions[label]
                 IN  e.confidence[1] <= e.price /\ e.price <= e.confidence[2]

\* a result in which the models disagree: a band of non-zero width
C8_Witness ==
    /\ pc = "returned"
    /\ \E i \in PredictedPoints(result.value.chart_data) :
          LET pt == result.value.chart_data[i]
          IN  pt.lower < pt.price /\ pt.price < pt.upper
    /\ result.value.predictions["next_30d"].confidence[1]
          < result.value.predictions["next_30d"].confidence[2]

Min3(a, b, c) == Min(a, Min(b, c))
Max3(a, b, c) == Max(a, Max(b, c))

\* C9: the weights are 0.5 (Pattern), 0.3 (Ensemble), 0.2 (Trend) and sum to
\* 1.0; the blended price of every step i is 0.5*pattern[i] + 0.3*ensemble[i]
\* + 0.2*trend[i] of the unrounded forecasts of that step, rounded to 2
\* decimals, hence between the least and the greatest of the three within
\* the rounding tolerance of half a cent.
C9_WeightedBlend ==
    /\ WEIGHTS = [lstm |-> 5, rf |-> 3, lr |-> 2]
    /\ WEIGHTS.lstm + WEIGHTS.rf + WEIGHTS.lr = WeightScale
    /\ pc = "returned" =>
        LET chart == result.value.chart_data
            l == lstm_out.value.predictions
            r == rf_out.value.predictions
            t == lr_out.value.predictions
        IN  /\ Cardinality(PredictedPoints(chart)) = DAYS
            /\ \A i \in PredictedPoints(chart) :
                 LET k == chart[i].day
                 IN  /\ k \in 1..DAYS
                     /\ chart[i].price = Round2(5 * l[k] + 3 * r[k] + 2 * t[k], 10)
                     /\ 2 * chart[i].price >= 2 * Min3(l[k], r[k], t[k]) - Cent
                     /\ 2 * chart[i].price <= 2 * Max3(l[k], r[k], t[k]) + Cent

\* a result with a step at which the three forecasts differ pairwise
C9_Witness ==
    /\ pc = "returned"
    /\ \E k \in 1..DAYS :
          LET a == lstm_out.value.predictions[k]
              b == rf_out.value.predictions[k]
              c == lr_out.value.predictions[k]
          IN  a # b /\ b # c /\ a # c

\* 0.95 * x and 1.05 * x, in the arithmetic of the loop
Times(x, permille) == RoundDiv(x * permille, ReturnScale)

\* the working history of one autoregressive loop: the input series followed
\* by the forecasts, each within 5% of the element before it
ClampedHistory(out, series) ==
    LET h == out.current_prices
        n == Len(series)
    IN  /\ Len(out.predictions) = DAYS
        /\ Len(h) = n + DAYS
        /\ SubSeq(h, 1, n) = series
        /\ \A k \in 1..DAYS :
             /\ h[n + k] = out.predictions[k]
             /\ Times(h[n + k - 1], ReturnScale - ReturnLimit) <= h[n + k]
             /\ h[n + k] <= Times(h[n + k - 1], ReturnScale + ReturnLimit)

\* C10: in the autoregressive loops of the Trend Model and the Ensemble
\* Model every one of the `days` forecasts p[k] satisfies
\* 0.95*prev <= p[k] <= 1.05*prev, prev being the last element of the
\* working history before the step (the last input price for k = 1, p[k-1]
\* afterwards), whatever the fitted regressor outputs; p[k] is appended to
\* the history before step k+1.
C10_ReturnClamp ==
    /\ pc \in {"predict_lr", "assemble", "returned"} =>
          ~rf_out.raised /\ ClampedHistory(rf_out.value, prices)
    /\ pc \in {"assemble", "returned"} =>
          ~lr_out.raised /\ ClampedHistory(lr_out.value, prices)

\* both loops ran with a regressor whose outputs exceed the clamp on both
\* sides, and the clamp was hit
C10_Witness ==
    /\ pc = "assemble"
    /\ rf.model = [up |-> -80, notup |-> 70]
    /\ lr.model = [up |-> 70, notup |-> 20]
    /\ LET h == rf_out.value.current_prices
           n == Len(prices)
       IN  /\ \E k \in 1..DAYS : h[n + k] = Times(h[n + k - 1], ReturnScale + ReturnLimit)
           /\ \E k \in 1..DAYS : h[n + k] = Times(h[n + k - 1], ReturnScale - ReturnLimit)

\* v lies within 20% of the scaled value a, to half a unit of the scale
Within20(v, a) == 10 * v + 5 >= 8 * a /\ 10 * v - 5 <= 12 * a

\* C11 (as claimed): in the Pattern Model's predict_days every predicted
\* scaled value lies within 20% of the value that precedes it in the rolling
\* window: the last scaled input price for the first step, the prediction
\* appended before it for the later steps.
C11_ClampToPreceding ==
    (pc \in {"predict_rf", "predict_lr", "assemble", "returned"}) =>
        LET w == lstm_out.value.window
            seed == Len(w) - 30
        IN  \A k \in 1..30 : Within20(w[seed + k], w[seed + k - 1])

\* C11 (amended): every one of the `days` predicted scaled values lies
\* within 20% of scaled[-1], the scaled last price of the input series, the
\* same anchor at every step, whatever the fitted regressor outputs; each is
\* appended to the window, whose seed is the last lookback scaled prices.
C11_ClampToLastObserved ==
    (pc \in {"predict_rf", "predict_lr", "assemble", "returned"}) =>
        LET w == lstm_out.value.window
            seed == Len(w) - 30
            anchor == ScalerTransform(lstm.scaler, prices[Len(prices)])
        IN  /\ ~lstm_out.raised
            /\ seed = lstm.lookback
            /\ w[seed] = anchor
            /\ \A k \in 1..30 : Within20(w[seed + k], anchor)

\* the loop ran from a positive anchor and appended a value that is within
\* 20% of the anchor and not within 20% of the value appended before it
C11_Witness ==
    /\ pc = "returned"
    /\ LET w == lstm_out.value.window
           seed == Len(w) - 30
       IN  /\ w[seed] > 0
           /\ \E k \in 2..30 :
                 /\ Within20(w[seed + k], w[seed])
                 /\ ~Within20(w[seed + k], w[seed + k - 1])

\* C12: whenever predict() returns a result for a series of len >= 30
\* prices, chart_data is, in this order, min(30, len-1) points of type
\* "historical" holding the last real prices at days -min(30, len-1) .. -1,
\* one point of type "current" at day 0 holding the supplied current price,
\* and 30 points of type "predicted" at days 1..30; the day indices increase
\* by 1 from each point to the next.
C12_ChartLayout ==
    (pc = "returned" /\ Len(prices) >= 30) =>
        LET chart == result.value.chart_data
            len == Len(prices)
            h == IF len - 1 < 30 THEN len - 1 ELSE 30
        IN  /\ Len(chart) = h + 1 + 30
            /\ \A i \in 1..h :
                  /\ chart[i].type = "historical"
                  /\ chart[i].day = i - h - 1
                  /\ chart[i].price = Round2(prices[len - h + i], 1)
            /\ chart[h + 1].type = "current"
            /\ chart[h + 1].day = 0
            /\ chart[h + 1].price = Round2(current_price, 1)
            /\ \A i \in 1..30 :
                  /\ chart[h + 1 + i].type = "predicted"
                  /\ chart[h + 1 + i].day = i
            /\ \A i \in 1..(Len(chart) - 1) : chart[i + 1].day = chart[i].day + 1

\* predict() returned the chart of a series that is not constant over its
\* last 30 prices: 61 points, from day -30 to day 30
C12_Witness ==
    /\ pc = "returned"
    /\ Len(result.value.chart_data) = 61
    /\ result.value.chart_data[1].day = -30
    /\ result.value.chart_data[1].price # result.value.chart_data[30].price
    /\ result.value.chart_data[61].day = 30

\* the recent prices increase strictly by a constant step
ConstantRise(series) ==
    /\ series[2] > series[1]
    /\ \A i \in 1..(Len(series) - 1) : series[i + 1] - series[i] = series[2] - series[1]

\* C13: for predict_intraday with at least 10 recent prices that increase
\* strictly by a constant step and interval_seconds = 60, the step counts of
\* the three horizons are 5, 15 and 30, each predicted price is the linear
\* extrapolation to index n + steps plus 0.3 * momentum * steps / 5 and is
\* strictly greater than the last observed price, and all three horizons
\* report direction "up" with lower <= price <= upper.
C13_IntradayRisingUp ==
    (pc \in {"intraday_returned", "intraday_raised"} /\ interval = 60
        /\ Len(prices) >= 10 /\ ConstantRise(prices)) =>
        LET n == Len(prices)
            d == prices[2] - prices[1]
            minutes == [h5min |-> 5, h15min |-> 15, h30min |-> 30]
            pred(m) == prices[1] + d * (n + m) + RoundDiv(3 * (4 * d) * m, 50)
        IN  /\ pc = "intraday_returned"
            /\ DOMAIN result.value.predictions = DOMAIN minutes
            /\ \A l \in DOMAIN minutes :
                  LET e == result.value.predictions[l]
                  IN  /\ e.steps = minutes[l]
                      /\ pred(minutes[l]) > prices[n]
                      /\ e.price = Round2(pred(minutes[l]), 1)
                      /\ e.price >= Round2(prices[n], 1)
                      /\ e.direction = "up"
                      /\ e.lower <= e.price /\ e.price <= e.upper

\* predict_intraday returned for 20 or more prices rising by a constant step
\* at interval_seconds = 60, and reports "up" at 30 minutes
C13_Witness ==
    /\ pc = "intraday_returned"
    /\ interval = 60
    /\ Len(prices) >= 20
    /\ ConstantRise(prices)
    /\ result.value.predictions["h30min"].direction = "up"
    /\ result.value.predictions["h30min"].price > result.value.current_price

=============================================================================
